---- MODULE Spec2Model ----
(***************************************************************************)
(* The HighResTimer native-call shims of nanoFramework.Hardware.Esp32      *)
(* (Stubs/..._HighResTimer_mshl.cpp) as a state machine.                   *)
(*                                                                         *)
(* Each shim is one atomic action: it resolves the managed object from the *)
(* stack frame, decodes its argument, calls the timer driver, and writes   *)
(* the result slot.  The shims are translated from the source.  The timer  *)
(* driver (the HighResTimer class), the association table it keeps and the *)
(* interop marshalling primitives are not part of the source file; they    *)
(* are modelled from the specification's sections 4.1 to 4.3.              *)
(*                                                                         *)
(* Spec follows one caller whose calls return before the next starts.      *)
(* ClockSpec is the same with a caller that keeps the tick counts it       *)
(* reads.  ConcSpec and RaceSpec follow several threads whose driver calls *)
(* overlap.  RoundTripSpec starts the counter at every unsigned 64-bit     *)
(* value.                                                                  *)
(***************************************************************************)
EXTENDS Integers, FiniteSets, TLC

\* ------------------------------------------------------------------ bounds
NumRefs     == 2   \* managed HighResTimer objects that exist
NumSlots    == 2   \* hardware timer slots of the peripheral
MaxHandles  == 2   \* native handles ever created in one run
MaxInterval == 2   \* largest interval a caller passes
MaxTicks    == 2   \* how far the free-running counter is followed
NumThreads  == 2   \* managed threads that call into the driver concurrently

\* ----------------------------------------------------------------- values
NullRef  == 0
Refs     == 1..NumRefs
Handles  == 1..MaxHandles
NoHandle == 0
NoAlarm  == -1
Slots    == 1..NumSlots
NoSlot   == 0
Threads  == 1..NumThreads
NoTick   == -1

\* Status codes: success and the closed set of failure kinds.
S_OK                  == "S_OK"
CLR_E_NULL_REFERENCE  == "NullReference"
ArgumentTypeOrRange   == "ArgumentTypeOrRange"
NotFound              == "NotFound"
InvalidState          == "InvalidState"
ResourceExhausted     == "ResourceExhausted"
PlatformFault         == "PlatformFault"
NotRun                == "NotRun"   \* a step the call never reached

FAILED(hr) == hr # S_OK

\* An argument slot of the stack frame: a data type tag and the bits it holds.
\* The callers pass every interval up to MaxInterval as an unsigned 64-bit slot,
\* and one slot of another type.
ArgSlots == [type : {"U8"}, val : 0..MaxInterval] \cup [type : {"I4"}, val : {MaxInterval}]
NoArg    == [type |-> "none", val |-> 0]
EmptySlot == [type |-> "none", val |-> 0]

VARIABLES
    table,      \* association table: managed reference -> native handle
    mode,       \* per handle: Unallocated, Idle, ArmedOneShot, ArmedPeriodic, Disposed
    interval,   \* per handle: configured interval in ticks (0 when not armed)
    alarm,      \* per handle: counter value of the pending firing, or NoAlarm
    released,   \* per handle: how often its hardware resource was released
    slotOf,     \* per handle: the hardware timer slot it holds, or NoSlot
    nextHandle, \* next native handle id to hand out
    now,        \* the free-running tick counter
    sched,      \* per reference: the schedule its caller's successful calls ask for
    retSlot,    \* the result slot of the stack frame of the call that returned
    call,       \* what the call that returned did, until its caller moves on
    lastTick,   \* the tick count the caller took from its last successful GetCurrent
    thr         \* per managed thread: the driver call it is in, when calls overlap

vars == <<table, mode, interval, alarm, released, slotOf, nextHandle, now, sched,
          retSlot, call, lastTick, thr>>

hwvars == <<table, mode, interval, alarm, released, slotOf, nextHandle>>

\* The driver's state as one value, passed to and returned by its operations.
HW == [table |-> table, mode |-> mode, interval |-> interval, alarm |-> alarm,
       released |-> released, slotOf |-> slotOf, nextHandle |-> nextHandle]

\* ---------------------------------------------- marshalling primitives
\* Interop_Marshal_RetrieveManagedObject: the invocation's "this" object, or
\* null when the frame carries none.
Interop_Marshal_RetrieveManagedObject(ref) == ref

\* Interop_Marshal_UINT64: the slot's value when the slot holds an unsigned
\* 64-bit value, reduced to that width; a type error otherwise.  TLC's integers
\* are 32 bits wide, so the widths are scaled down: the unsigned 64-bit range
\* is UINT64_Range values and the signed 32-bit range INT32_Range values.
UINT64_Range == 256
Interop_Marshal_UINT64(arg) ==
    IF arg.type = "U8"
    THEN [hr |-> S_OK, val |-> arg.val % UINT64_Range]
    ELSE [hr |-> ArgumentTypeOrRange, val |-> 0]

\* SetResult_INT32 / SetResult_UINT64: the result slot after the write.
INT32_Range == 16
ToInt32(v) ==
    LET w == v % INT32_Range
    IN  IF w >= INT32_Range \div 2 THEN w - INT32_Range ELSE w
SetResult_INT32(v)  == [type |-> "I4", val |-> ToInt32(v)]
SetResult_UINT64(v) == [type |-> "U8", val |-> v % UINT64_Range]

\* ------------------------------------------------ association table
Lookup(hw, ref) == hw.table[ref]

Live(hw) == {h \in Handles : hw.mode[h] \in {"Idle", "ArmedOneShot", "ArmedPeriodic"}}

\* The hardware timer slots no handle holds.
FreeSlots(hw) == Slots \ {hw.slotOf[h] : h \in Handles}

\* --------------------------------------------------- timer driver
\* Every driver operation returns the status it reports through hr, its
\* return value, and the driver state it leaves.
DrvFail(hw, kind) == [hr |-> kind, ret |-> 0, hw |-> hw]

\* Create: needs a free hardware slot to allocate, and a reference that has no
\* timer yet to associate the new handle with; the new handle starts Idle.
Drv_NativeEspTimerCreate(hw, ref, fault) ==
    IF FreeSlots(hw) = {} THEN DrvFail(hw, ResourceExhausted)
    ELSE IF Lookup(hw, ref) # NoHandle THEN DrvFail(hw, InvalidState)
    ELSE IF fault THEN DrvFail(hw, PlatformFault)
    ELSE LET h == hw.nextHandle
             s == CHOOSE f \in FreeSlots(hw) : \A g \in FreeSlots(hw) : f <= g
         IN  [hr  |-> S_OK,
              ret |-> h,
              hw  |-> [hw EXCEPT !.table[ref] = h,
                                 !.mode[h] = "Idle",
                                 !.interval[h] = 0,
                                 !.alarm[h] = NoAlarm,
                                 !.slotOf[h] = s,
                                 !.nextHandle = h + 1]]

\* Dispose: nothing to do for a reference without a timer; otherwise stops the
\* timer, releases the hardware resource and removes the association.  It is
\* valid from every state and reports no failure.
Drv_NativeEspTimerDispose(hw, ref) ==
    LET h == Lookup(hw, ref)
    IN  IF h = NoHandle THEN [hr |-> S_OK, ret |-> 0, hw |-> hw]
        ELSE [hr  |-> S_OK,
              ret |-> 0,
              hw  |-> [hw EXCEPT !.table[ref] = NoHandle,
                                 !.mode[h] = "Disposed",
                                 !.interval[h] = 0,
                                 !.alarm[h] = NoAlarm,
                                 !.slotOf[h] = NoSlot,
                                 !.released[h] = @ + 1]]

\* Stop: cancels the pending firing of an armed timer; a no-op on an Idle one.
Drv_NativeStop(hw, ref, fault) ==
    LET h == Lookup(hw, ref)
    IN  IF h = NoHandle THEN DrvFail(hw, NotFound)
        ELSE IF hw.mode[h] = "Disposed" THEN DrvFail(hw, InvalidState)
        ELSE IF hw.mode[h] = "Idle" THEN [hr |-> S_OK, ret |-> 0, hw |-> hw]
        ELSE IF fault THEN DrvFail(hw, PlatformFault)
        ELSE [hr  |-> S_OK,
              ret |-> 0,
              hw  |-> [hw EXCEPT !.mode[h] = "Idle",
                                 !.interval[h] = 0,
                                 !.alarm[h] = NoAlarm]]

\* Start: stops whatever was scheduled and programs one alarm, ticks from the
\* current counter value.  An interval of 0 is rejected.
DrvStart(hw, ref, ticks, newMode, fault, t) ==
    LET h == Lookup(hw, ref)
    IN  IF h = NoHandle THEN DrvFail(hw, NotFound)
        ELSE IF hw.mode[h] = "Disposed" THEN DrvFail(hw, InvalidState)
        ELSE IF ticks = 0 THEN DrvFail(hw, ArgumentTypeOrRange)
        ELSE IF fault THEN DrvFail(hw, PlatformFault)
        ELSE [hr  |-> S_OK,
              ret |-> 0,
              hw  |-> [hw EXCEPT !.mode[h] = newMode,
                                 !.interval[h] = ticks,
                                 !.alarm[h] = t + ticks]]

Drv_NativeStartOneShot(hw, ref, ticks, fault, t) ==
    DrvStart(hw, ref, ticks, "ArmedOneShot", fault, t)

Drv_NativeStartPeriodic(hw, ref, ticks, fault, t) ==
    DrvStart(hw, ref, ticks, "ArmedPeriodic", fault, t)

\* GetCurrent: the free-running counter, unless the time source is down.
Drv_NativeGetCurrent(hw, fault, t) ==
    IF fault THEN DrvFail(hw, PlatformFault)
    ELSE [hr |-> S_OK, ret |-> t % UINT64_Range, hw |-> hw]

\* ------------------------------------------------------- call shims
\* What one shim call did: the status it returned, what the marshaller and the
\* driver reported (NotRun when the call never reached them), the value the
\* marshaller decoded, how often the driver operation was invoked, whether the
\* result slot was written, the slot and the driver state afterwards.
NoDecode   == [hr |-> NotRun, val |-> 0]
NoDrv(hw)  == [hr |-> NotRun, ret |-> 0, hw |-> hw]

Returned(hr, m, d, wrote, slot) ==
    [hr          |-> hr,
     marshalHr   |-> m.hr,
     param0      |-> m.val,
     driverHr    |-> d.hr,
     driverRet   |-> d.ret,
     driverCalls |-> IF d.hr = NotRun THEN 0 ELSE 1,
     wrote       |-> wrote,
     slot        |-> slot,
     hw          |-> d.hw]

\* Mutant: the result is written before the driver's status is checked.
Create_ResultBeforeCheck(hw, slot, ref, fault) ==
    LET pMngObj == Interop_Marshal_RetrieveManagedObject(ref)
    IN  IF pMngObj = NullRef
        THEN Returned(CLR_E_NULL_REFERENCE, NoDecode, NoDrv(hw), FALSE, slot)
        ELSE LET d == Drv_NativeEspTimerCreate(hw, pMngObj, fault)
             IN  Returned(d.hr, NoDecode, d, TRUE, SetResult_INT32(d.ret))

\* Mutant: the driver's status is dropped; the call returns success without a
\* result.
Create_SwallowsFailure(hw, slot, ref, fault) ==
    LET pMngObj == Interop_Marshal_RetrieveManagedObject(ref)
    IN  IF pMngObj = NullRef
        THEN Returned(CLR_E_NULL_REFERENCE, NoDecode, NoDrv(hw), FALSE, slot)
        ELSE LET d == Drv_NativeEspTimerCreate(hw, pMngObj, fault)
             IN  IF FAILED(d.hr)
                 THEN Returned(S_OK, NoDecode, d, FALSE, slot)
                 ELSE Returned(d.hr, NoDecode, d, TRUE, SetResult_INT32(d.ret))

\* Mutant: every failure of the driver is reported as a platform fault.
Create_RemapsFailure(hw, slot, ref, fault) ==
    LET pMngObj == Interop_Marshal_RetrieveManagedObject(ref)
    IN  IF pMngObj = NullRef
        THEN Returned(CLR_E_NULL_REFERENCE, NoDecode, NoDrv(hw), FALSE, slot)
        ELSE LET d == Drv_NativeEspTimerCreate(hw, pMngObj, fault)
             IN  IF FAILED(d.hr)
                 THEN Returned(PlatformFault, NoDecode, d, FALSE, slot)
                 ELSE Returned(d.hr, NoDecode, d, TRUE, SetResult_INT32(d.ret))

\* Mutant: a failing driver call is made a second time.
Create_RetriesDriver(hw, slot, ref, fault) ==
    LET pMngObj == Interop_Marshal_RetrieveManagedObject(ref)
    IN  IF pMngObj = NullRef
        THEN Returned(CLR_E_NULL_REFERENCE, NoDecode, NoDrv(hw), FALSE, slot)
        ELSE LET d == Drv_NativeEspTimerCreate(hw, pMngObj, fault)
                 e == Drv_NativeEspTimerCreate(d.hw, pMngObj, fault)
             IN  IF FAILED(d.hr)
                 THEN [Returned(e.hr, NoDecode, e, FALSE, slot) EXCEPT !.driverCalls = 2]
                 ELSE Returned(d.hr, NoDecode, d, TRUE, SetResult_INT32(d.ret))

NativeEspTimerCreate___I4(hw, slot, ref, fault) ==
    LET pMngObj == Interop_Marshal_RetrieveManagedObject(ref)
    IN  IF pMngObj = NullRef
        THEN Returned(CLR_E_NULL_REFERENCE, NoDecode, NoDrv(hw), FALSE, slot)
        ELSE LET d == Drv_NativeEspTimerCreate(hw, pMngObj, fault)
             IN  IF FAILED(d.hr)
                 THEN Returned(d.hr, NoDecode, d, FALSE, slot)
                 ELSE Returned(d.hr, NoDecode, d, TRUE, SetResult_INT32(d.ret))

\* Mutant: the Dispose shim calls the driver's Stop.
Dispose_CallsStop(hw, slot, ref) ==
    LET pMngObj == Interop_Marshal_RetrieveManagedObject(ref)
    IN  IF pMngObj = NullRef
        THEN Returned(CLR_E_NULL_REFERENCE, NoDecode, NoDrv(hw), FALSE, slot)
        ELSE LET d == Drv_NativeStop(hw, pMngObj, FALSE)
             IN  Returned(d.hr, NoDecode, d, FALSE, slot)

\* Mutant: the Dispose shim returns without calling the driver.
Dispose_OmitsDriverCall(hw, slot, ref) ==
    LET pMngObj == Interop_Marshal_RetrieveManagedObject(ref)
    IN  IF pMngObj = NullRef
        THEN Returned(CLR_E_NULL_REFERENCE, NoDecode, NoDrv(hw), FALSE, slot)
        ELSE Returned(S_OK, NoDecode, NoDrv(hw), FALSE, slot)

\* Mutant: the Dispose shim reports a fault after the driver disposed the timer.
Dispose_FailsAfterRelease(hw, slot, ref) ==
    LET pMngObj == Interop_Marshal_RetrieveManagedObject(ref)
    IN  IF pMngObj = NullRef
        THEN Returned(CLR_E_NULL_REFERENCE, NoDecode, NoDrv(hw), FALSE, slot)
        ELSE LET d == Drv_NativeEspTimerDispose(hw, pMngObj)
             IN  Returned(PlatformFault, NoDecode, d, FALSE, slot)

NativeEspTimerDispose___VOID(hw, slot, ref) ==
    LET pMngObj == Interop_Marshal_RetrieveManagedObject(ref)
    IN  IF pMngObj = NullRef
        THEN Returned(CLR_E_NULL_REFERENCE, NoDecode, NoDrv(hw), FALSE, slot)
        ELSE LET d == Drv_NativeEspTimerDispose(hw, pMngObj)
             IN  Returned(d.hr, NoDecode, d, FALSE, slot)

\* Mutant: the Stop shim drops the driver's status and returns success.
Stop_SwallowsFailure(hw, slot, ref, fault) ==
    LET pMngObj == Interop_Marshal_RetrieveManagedObject(ref)
    IN  IF pMngObj = NullRef
        THEN Returned(CLR_E_NULL_REFERENCE, NoDecode, NoDrv(hw), FALSE, slot)
        ELSE LET d == Drv_NativeStop(hw, pMngObj, fault)
             IN  Returned(S_OK, NoDecode, d, FALSE, slot)

\* Mutant: the Stop shim calls the driver's Dispose.
Stop_CallsDispose(hw, slot, ref, fault) ==
    LET pMngObj == Interop_Marshal_RetrieveManagedObject(ref)
    IN  IF pMngObj = NullRef
        THEN Returned(CLR_E_NULL_REFERENCE, NoDecode, NoDrv(hw), FALSE, slot)
        ELSE LET d == Drv_NativeEspTimerDispose(hw, pMngObj)
             IN  Returned(d.hr, NoDecode, d, FALSE, slot)

NativeStop___VOID(hw, slot, ref, fault) ==
    LET pMngObj == Interop_Marshal_RetrieveManagedObject(ref)
    IN  IF pMngObj = NullRef
        THEN Returned(CLR_E_NULL_REFERENCE, NoDecode, NoDrv(hw), FALSE, slot)
        ELSE LET d == Drv_NativeStop(hw, pMngObj, fault)
             IN  Returned(d.hr, NoDecode, d, FALSE, slot)

\* Mutant: the argument is decoded before the null check.
StartOneShot_NullCheckAfterDecode(hw, slot, ref, arg, fault, t) ==
    LET pMngObj == Interop_Marshal_RetrieveManagedObject(ref)
        param0  == Interop_Marshal_UINT64(arg)
    IN  IF FAILED(param0.hr)
        THEN Returned(param0.hr, param0, NoDrv(hw), FALSE, slot)
        ELSE IF pMngObj = NullRef
        THEN Returned(CLR_E_NULL_REFERENCE, param0, NoDrv(hw), FALSE, slot)
        ELSE LET d == Drv_NativeStartOneShot(hw, pMngObj, param0.val, fault, t)
             IN  Returned(d.hr, param0, d, FALSE, slot)

\* Mutant: the one-shot shim drops the driver's status and returns success.
StartOneShot_SwallowsFailure(hw, slot, ref, arg, fault, t) ==
    LET pMngObj == Interop_Marshal_RetrieveManagedObject(ref)
    IN  IF pMngObj = NullRef
        THEN Returned(CLR_E_NULL_REFERENCE, NoDecode, NoDrv(hw), FALSE, slot)
        ELSE LET param0 == Interop_Marshal_UINT64(arg)
             IN  IF FAILED(param0.hr)
                 THEN Returned(param0.hr, param0, NoDrv(hw), FALSE, slot)
                 ELSE LET d == Drv_NativeStartOneShot(hw, pMngObj, param0.val, fault, t)
                      IN  Returned(S_OK, param0, d, FALSE, slot)

\* Mutant: the interval goes through a signed 32-bit value on its way to the
\* driver.
StartOneShot_NarrowsInterval(hw, slot, ref, arg, fault, t) ==
    LET pMngObj == Interop_Marshal_RetrieveManagedObject(ref)
    IN  IF pMngObj = NullRef
        THEN Returned(CLR_E_NULL_REFERENCE, NoDecode, NoDrv(hw), FALSE, slot)
        ELSE LET param0 == Interop_Marshal_UINT64(arg)
             IN  IF FAILED(param0.hr)
                 THEN Returned(param0.hr, param0, NoDrv(hw), FALSE, slot)
                 ELSE LET d == Drv_NativeStartOneShot(hw, pMngObj,
                                       ToInt32(param0.val) % UINT64_Range, fault, t)
                      IN  Returned(d.hr, param0, d, FALSE, slot)

\* Mutant: the one-shot shim calls the driver's StartPeriodic.
StartOneShot_CallsPeriodic(hw, slot, ref, arg, fault, t) ==
    LET pMngObj == Interop_Marshal_RetrieveManagedObject(ref)
    IN  IF pMngObj = NullRef
        THEN Returned(CLR_E_NULL_REFERENCE, NoDecode, NoDrv(hw), FALSE, slot)
        ELSE LET param0 == Interop_Marshal_UINT64(arg)
             IN  IF FAILED(param0.hr)
                 THEN Returned(param0.hr, param0, NoDrv(hw), FALSE, slot)
                 ELSE LET d == Drv_NativeStartPeriodic(hw, pMngObj, param0.val, fault, t)
                      IN  Returned(d.hr, param0, d, FALSE, slot)

NativeStartOneShot___VOID__U8(hw, slot, ref, arg, fault, t) ==
    LET pMngObj == Interop_Marshal_RetrieveManagedObject(ref)
    IN  IF pMngObj = NullRef
        THEN Returned(CLR_E_NULL_REFERENCE, NoDecode, NoDrv(hw), FALSE, slot)
        ELSE LET param0 == Interop_Marshal_UINT64(arg)
             IN  IF FAILED(param0.hr)
                 THEN Returned(param0.hr, param0, NoDrv(hw), FALSE, slot)
                 ELSE LET d == Drv_NativeStartOneShot(hw, pMngObj, param0.val, fault, t)
                      IN  Returned(d.hr, param0, d, FALSE, slot)

\* Mutant: the decode's status is not checked; the slot's bits go to the driver.
StartPeriodic_IgnoresDecodeFailure(hw, slot, ref, arg, fault, t) ==
    LET pMngObj == Interop_Marshal_RetrieveManagedObject(ref)
    IN  IF pMngObj = NullRef
        THEN Returned(CLR_E_NULL_REFERENCE, NoDecode, NoDrv(hw), FALSE, slot)
        ELSE LET param0 == Interop_Marshal_UINT64(arg)
                 d == Drv_NativeStartPeriodic(hw, pMngObj, arg.val, fault, t)
             IN  Returned(d.hr, param0, d, FALSE, slot)

\* Mutant: the periodic shim calls the driver's StartOneShot.
StartPeriodic_CallsOneShot(hw, slot, ref, arg, fault, t) ==
    LET pMngObj == Interop_Marshal_RetrieveManagedObject(ref)
    IN  IF pMngObj = NullRef
        THEN Returned(CLR_E_NULL_REFERENCE, NoDecode, NoDrv(hw), FALSE, slot)
        ELSE LET param0 == Interop_Marshal_UINT64(arg)
             IN  IF FAILED(param0.hr)
                 THEN Returned(param0.hr, param0, NoDrv(hw), FALSE, slot)
                 ELSE LET d == Drv_NativeStartOneShot(hw, pMngObj, param0.val, fault, t)
                      IN  Returned(d.hr, param0, d, FALSE, slot)

NativeStartPeriodic___VOID__U8(hw, slot, ref, arg, fault, t) ==
    LET pMngObj == Interop_Marshal_RetrieveManagedObject(ref)
    IN  IF pMngObj = NullRef
        THEN Returned(CLR_E_NULL_REFERENCE, NoDecode, NoDrv(hw), FALSE, slot)
        ELSE LET param0 == Interop_Marshal_UINT64(arg)
             IN  IF FAILED(param0.hr)
                 THEN Returned(param0.hr, param0, NoDrv(hw), FALSE, slot)
                 ELSE LET d == Drv_NativeStartPeriodic(hw, pMngObj, param0.val, fault, t)
                      IN  Returned(d.hr, param0, d, FALSE, slot)

\* Mutant: the driver's status is dropped; the call returns success.
GetCurrent_IgnoresStatus(hw, slot, fault, t) ==
    LET d == Drv_NativeGetCurrent(hw, fault, t)
    IN  Returned(S_OK, NoDecode, d, TRUE, SetResult_UINT64(d.ret))

\* Mutant: the bitwise complement of the driver's tick count is written.
GetCurrent_WritesComplement(hw, slot, fault, t) ==
    LET d == Drv_NativeGetCurrent(hw, fault, t)
    IN  IF FAILED(d.hr)
        THEN Returned(d.hr, NoDecode, d, FALSE, slot)
        ELSE Returned(d.hr, NoDecode, d, TRUE, SetResult_UINT64(UINT64_Range - 1 - d.ret))

\* Mutant: the static shim asks for a managed object and finds none.
GetCurrent_RequiresManagedObject(hw, slot, fault, t) ==
    LET pMngObj == Interop_Marshal_RetrieveManagedObject(NullRef)
    IN  IF pMngObj = NullRef
        THEN Returned(CLR_E_NULL_REFERENCE, NoDecode, NoDrv(hw), FALSE, slot)
        ELSE LET d == Drv_NativeGetCurrent(hw, fault, t)
             IN  IF FAILED(d.hr)
                 THEN Returned(d.hr, NoDecode, d, FALSE, slot)
                 ELSE Returned(d.hr, NoDecode, d, TRUE, SetResult_UINT64(d.ret))

NativeGetCurrent___STATIC__U8(hw, slot, fault, t) ==
    LET d == Drv_NativeGetCurrent(hw, fault, t)
    IN  IF FAILED(d.hr)
        THEN Returned(d.hr, NoDecode, d, FALSE, slot)
        ELSE Returned(d.hr, NoDecode, d, TRUE, SetResult_UINT64(d.ret))

\* --------------------------------------------------------- actions
InstanceOps == {"Create", "Dispose", "Stop", "StartOneShot", "StartPeriodic"}
StartOps    == {"StartOneShot", "StartPeriodic"}

NoSched == [next |-> NoAlarm, val |-> 0, periodic |-> FALSE]

\* No call has returned that its caller has not yet taken the status of.
NoCall == [op |-> "none", ref |-> NullRef, hr |-> NotRun,
           marshalHr |-> NotRun, param0 |-> 0, driverHr |-> NotRun,
           driverRet |-> 0, driverCalls |-> 0, wrote |-> FALSE, before |-> "None"]

\* A managed thread that is in no driver call.
NoThreadCall == [pc |-> "idle", op |-> "none", ref |-> NullRef, h |-> NoHandle,
                 hr |-> NotRun]

Init ==
    /\ table = [r \in Refs |-> NoHandle]
    /\ mode = [h \in Handles |-> "Unallocated"]
    /\ interval = [h \in Handles |-> 0]
    /\ alarm = [h \in Handles |-> NoAlarm]
    /\ released = [h \in Handles |-> 0]
    /\ slotOf = [h \in Handles |-> NoSlot]
    /\ nextHandle = 1
    /\ now = 0
    /\ sched = [r \in Refs |-> NoSched]
    /\ retSlot = EmptySlot
    /\ call = NoCall
    /\ lastTick = NoTick
    /\ thr = [t \in Threads |-> NoThreadCall]

\* The mode of the timer a reference stands for, "None" when it has no timer.
ModeIn(tbl, md, ref) ==
    IF ref = NullRef THEN "None"
    ELSE IF tbl[ref] = NoHandle THEN "None"
    ELSE md[tbl[ref]]

ModeOf(ref) == ModeIn(table, mode, ref)

\* The managed caller's invocation of one shim returns: the driver state and
\* the result slot are what the shim left, and the caller has its status.  Calls
\* are synchronous: the next one starts after the caller took this one's.  The
\* caller's successful calls settle the schedule it expects: a Start* asks for
\* firing arg.val ticks from now (and every arg.val ticks from then on, when
\* periodic), any other call for none.
Complete(op, ref, arg, outcome) ==
    LET out == outcome IN
    /\ call = NoCall
    /\ table' = out.hw.table
    /\ mode' = out.hw.mode
    /\ interval' = out.hw.interval
    /\ alarm' = out.hw.alarm
    /\ released' = out.hw.released
    /\ slotOf' = out.hw.slotOf
    /\ nextHandle' = out.hw.nextHandle
    /\ retSlot' = out.slot
    /\ call' = [op |-> op, ref |-> ref, hr |-> out.hr,
                marshalHr |-> out.marshalHr, param0 |-> out.param0,
                driverHr |-> out.driverHr, driverRet |-> out.driverRet,
                driverCalls |-> out.driverCalls,
                wrote |-> out.wrote, before |-> ModeOf(ref)]
    /\ sched' = IF ref = NullRef \/ out.hr # S_OK THEN sched
                ELSE IF op \in StartOps
                THEN [sched EXCEPT ![ref] = [next |-> now + arg.val, val |-> arg.val,
                                             periodic |-> (op = "StartPeriodic")]]
                ELSE [sched EXCEPT ![ref] = NoSched]
    /\ now' = now
    /\ UNCHANGED <<lastTick, thr>>

\* A Create that allocates nothing: it takes no handle id.
CreateFails(ref) ==
    IF ref = NullRef THEN TRUE
    ELSE IF Lookup(HW, ref) # NoHandle THEN TRUE
    ELSE FreeSlots(HW) = {}

\* A Create that would take a handle id beyond MaxHandles is not followed.
Create(ref, fault) ==
    /\ IF nextHandle <= MaxHandles THEN TRUE ELSE CreateFails(ref)
    /\ Complete("Create", ref, NoArg, NativeEspTimerCreate___I4(HW, EmptySlot, ref, fault))

Dispose(ref) ==
    Complete("Dispose", ref, NoArg, NativeEspTimerDispose___VOID(HW, EmptySlot, ref))

Stop(ref, fault) ==
    Complete("Stop", ref, NoArg, NativeStop___VOID(HW, EmptySlot, ref, fault))

StartOneShot(ref, arg, fault) ==
    Complete("StartOneShot", ref, arg,
             NativeStartOneShot___VOID__U8(HW, EmptySlot, ref, arg, fault, now))

StartPeriodic(ref, arg, fault) ==
    Complete("StartPeriodic", ref, arg,
             NativeStartPeriodic___VOID__U8(HW, EmptySlot, ref, arg, fault, now))

GetCurrent(fault) ==
    Complete("GetCurrent", NullRef, NoArg,
             NativeGetCurrent___STATIC__U8(HW, EmptySlot, fault, now))

\* The caller takes the status and the result of the call that returned; the
\* call's stack frame is gone.
Resume ==
    /\ call # NoCall
    /\ call' = NoCall
    /\ retSlot' = EmptySlot
    /\ UNCHANGED <<hwvars, now, sched, lastTick, thr>>

\* The same, by a caller that keeps the tick count of a successful GetCurrent to
\* compare the next one with.
ResumeKeepingTick ==
    /\ call # NoCall
    /\ call' = NoCall
    /\ lastTick' = IF call.op = "GetCurrent" /\ call.hr = S_OK THEN retSlot.val
                   ELSE lastTick
    /\ retSlot' = EmptySlot
    /\ UNCHANGED <<hwvars, now, sched, thr>>

\* The counter advances by one tick; every timer whose alarm is reached fires:
\* a one-shot timer returns to Idle, a periodic one re-arms itself.
Due(h) == alarm[h] = now + 1

Tick ==
    /\ now < MaxTicks
    /\ now' = now + 1
    /\ mode' = [h \in Handles |->
                  IF Due(h) /\ mode[h] = "ArmedOneShot" THEN "Idle" ELSE mode[h]]
    /\ interval' = [h \in Handles |->
                  IF Due(h) /\ mode[h] = "ArmedOneShot" THEN 0 ELSE interval[h]]
    /\ alarm' = [h \in Handles |->
                  IF ~Due(h) THEN alarm[h]
                  ELSE IF mode[h] = "ArmedPeriodic" THEN alarm[h] + interval[h]
                  ELSE NoAlarm]
    /\ sched' = [r \in Refs |->
                  IF sched[r].next # now + 1 THEN sched[r]
                  ELSE IF sched[r].periodic THEN [sched[r] EXCEPT !.next = @ + sched[r].val]
                  ELSE NoSched]
    /\ UNCHANGED <<table, released, slotOf, nextHandle, retSlot, call, lastTick, thr>>

\* The managed objects are interchangeable, so the callers create timers on the
\* lowest-numbered objects first: Create is called on an object only while every
\* lower-numbered one holds a timer.
CreateTargets == {NullRef} \cup {r \in Refs : \A q \in Refs : q < r => table[q] # NoHandle}

Next ==
    \/ \E ref \in CreateTargets, fault \in BOOLEAN : Create(ref, fault)
    \/ \E ref \in Refs \cup {NullRef} : Dispose(ref)
    \/ \E ref \in Refs \cup {NullRef}, fault \in BOOLEAN : Stop(ref, fault)
    \/ \E ref \in Refs \cup {NullRef}, arg \in ArgSlots, fault \in BOOLEAN :
           StartOneShot(ref, arg, fault)
    \/ \E ref \in Refs \cup {NullRef}, arg \in ArgSlots, fault \in BOOLEAN :
           StartPeriodic(ref, arg, fault)
    \/ \E fault \in BOOLEAN : GetCurrent(fault)
    \/ Resume
    \/ Tick

Spec == Init /\ [][Next]_vars

\* ------------------------------------------------ callers that read the clock
\* The same calls and firings, by callers that keep the tick counts GetCurrent
\* returns to them.  The time source may fail; the platform faults of the other
\* operations, which leave every timer and the counter as they were, are not
\* followed here.
ClockNext ==
    \/ \E ref \in CreateTargets : Create(ref, FALSE)
    \/ \E ref \in Refs \cup {NullRef} : Dispose(ref)
    \/ \E ref \in Refs \cup {NullRef} : Stop(ref, FALSE)
    \/ \E ref \in Refs \cup {NullRef}, arg \in ArgSlots :
           StartOneShot(ref, arg, FALSE)
    \/ \E ref \in Refs \cup {NullRef}, arg \in ArgSlots :
           StartPeriodic(ref, arg, FALSE)
    \/ \E fault \in BOOLEAN : GetCurrent(fault)
    \/ ResumeKeepingTick
    \/ Tick

ClockSpec == Init /\ [][ClockNext]_vars

\* ------------------------------------------- calls from several threads
\* Calls of different managed threads overlap.  A driver operation on a timer
\* is two steps, each atomic: the association table access (the lookup, and for
\* Dispose the removal of the entry with it), then the operation on the handle
\* the lookup returned.  Create allocates and associates under the driver's
\* mutual exclusion and is one step.  The shim's own steps touch only its
\* stack frame and are part of the call's first step.
LookupOps == {"Dispose", "Stop", "StartOneShot", "StartPeriodic"}

\* The interval the racing callers pass.
ConcArg == [type |-> "U8", val |-> MaxInterval]

\* The shim of an operation, applied to a driver state.
CallShim(op, hw, ref, arg, fault, t) ==
    CASE op = "Dispose"       -> NativeEspTimerDispose___VOID(hw, EmptySlot, ref)
      [] op = "Stop"          -> NativeStop___VOID(hw, EmptySlot, ref, fault)
      [] op = "StartOneShot"  -> NativeStartOneShot___VOID__U8(hw, EmptySlot, ref, arg, fault, t)
      [] op = "StartPeriodic" -> NativeStartPeriodic___VOID__U8(hw, EmptySlot, ref, arg, fault, t)

ThreadReturned(op, ref, h, hr) ==
    [pc |-> "returned", op |-> op, ref |-> ref, h |-> h, hr |-> hr]

\* A thread calls Create; the call returns.  A Create that would take a handle
\* id beyond MaxHandles is not followed.
ThreadCreate(t, ref, fault) ==
    LET out == NativeEspTimerCreate___I4(HW, EmptySlot, ref, fault) IN
    /\ thr[t].pc = "idle"
    /\ IF nextHandle <= MaxHandles THEN TRUE ELSE CreateFails(ref)
    /\ table' = out.hw.table
    /\ mode' = out.hw.mode
    /\ interval' = out.hw.interval
    /\ alarm' = out.hw.alarm
    /\ released' = out.hw.released
    /\ slotOf' = out.hw.slotOf
    /\ nextHandle' = out.hw.nextHandle
    /\ thr' = [thr EXCEPT ![t] = ThreadReturned("Create", ref, out.driverRet, out.hr)]
    /\ UNCHANGED <<now, sched, retSlot, call, lastTick>>

\* A thread calls Dispose, Stop or a Start*: the call runs up to the driver's
\* table access.  Without an entry the call returns what the shim returns;
\* with one, the thread holds the handle, and Dispose has removed the entry.
ThreadLookup(t, op, ref) ==
    /\ thr[t].pc = "idle"
    /\ IF Lookup(HW, ref) = NoHandle
       THEN /\ thr' = [thr EXCEPT ![t] =
                         ThreadReturned(op, ref, NoHandle,
                                        CallShim(op, HW, ref, ConcArg, FALSE, now).hr)]
            /\ table' = table
       ELSE /\ thr' = [thr EXCEPT ![t] = [pc |-> "found", op |-> op, ref |-> ref,
                                          h |-> Lookup(HW, ref), hr |-> NotRun]]
            /\ table' = IF op = "Dispose" THEN [table EXCEPT ![ref] = NoHandle]
                        ELSE table
    /\ UNCHANGED <<mode, interval, alarm, released, slotOf, nextHandle>>
    /\ UNCHANGED <<now, sched, retSlot, call, lastTick>>

\* The thread's call goes on with the handle its lookup returned: the driver
\* operates on that handle, whatever became of the entry since, and the call
\* returns.
ThreadOperate(t, fault) ==
    LET c   == thr[t]
        out == CallShim(c.op, [HW EXCEPT !.table[c.ref] = c.h], c.ref, ConcArg, fault, now)
    IN  /\ c.pc = "found"
        /\ mode' = out.hw.mode
        /\ interval' = out.hw.interval
        /\ alarm' = out.hw.alarm
        /\ released' = out.hw.released
        /\ slotOf' = out.hw.slotOf
        /\ thr' = [thr EXCEPT ![t] = ThreadReturned(c.op, c.ref, c.h, out.hr)]
        /\ UNCHANGED <<table, nextHandle, now, sched, retSlot, call, lastTick>>

\* The thread's caller takes the status.
ThreadResume(t) ==
    /\ thr[t].pc = "returned"
    /\ thr' = [thr EXCEPT ![t] = NoThreadCall]
    /\ UNCHANGED <<hwvars, now, sched, retSlot, call, lastTick>>

\* Threads that create and dispose timers on any managed object.
ConcNext ==
    \/ \E t \in Threads, ref \in Refs, fault \in BOOLEAN : ThreadCreate(t, ref, fault)
    \/ \E t \in Threads, ref \in Refs : ThreadLookup(t, "Dispose", ref)
    \/ \E t \in Threads, fault \in BOOLEAN : ThreadOperate(t, fault)
    \/ \E t \in Threads : ThreadResume(t)

ConcSpec == Init /\ [][ConcNext]_vars

\* Threads that stop, start and dispose timers that exist: the managed objects
\* RaceRefs each hold an Idle timer, and every operation races every other on
\* them.
RaceRefs == {1, 2}

RaceInit ==
    /\ table = [r \in Refs |-> IF r \in RaceRefs THEN r ELSE NoHandle]
    /\ mode = [h \in Handles |-> IF h \in RaceRefs THEN "Idle" ELSE "Unallocated"]
    /\ interval = [h \in Handles |-> 0]
    /\ alarm = [h \in Handles |-> NoAlarm]
    /\ released = [h \in Handles |-> 0]
    /\ slotOf = [h \in Handles |-> IF h \in RaceRefs THEN h ELSE NoSlot]
    /\ nextHandle = Cardinality(RaceRefs) + 1
    /\ now = 0
    /\ sched = [r \in Refs |-> NoSched]
    /\ retSlot = EmptySlot
    /\ call = NoCall
    /\ lastTick = NoTick
    /\ thr = [t \in Threads |-> NoThreadCall]

RaceNext ==
    \/ \E t \in Threads, op \in LookupOps, ref \in RaceRefs : ThreadLookup(t, op, ref)
    \/ \E t \in Threads, fault \in BOOLEAN : ThreadOperate(t, fault)
    \/ \E t \in Threads : ThreadResume(t)

RaceSpec == RaceInit /\ [][RaceNext]_vars

\* ------------------------------------- every unsigned 64-bit value
\* One timer exists and is Idle; the free-running counter stands at any value
\* of the unsigned 64-bit range.  The caller reads the counter and arms the
\* timer for as many ticks as the counter stands at, so that every value of the
\* range crosses the boundary in both directions.
RoundTripInit ==
    /\ table = [r \in Refs |-> IF r = 1 THEN 1 ELSE NoHandle]
    /\ mode = [h \in Handles |-> IF h = 1 THEN "Idle" ELSE "Unallocated"]
    /\ interval = [h \in Handles |-> 0]
    /\ alarm = [h \in Handles |-> NoAlarm]
    /\ released = [h \in Handles |-> 0]
    /\ slotOf = [h \in Handles |-> IF h = 1 THEN 1 ELSE NoSlot]
    /\ nextHandle = 2
    /\ now \in 0..(UINT64_Range - 1)
    /\ sched = [r \in Refs |-> NoSched]
    /\ retSlot = EmptySlot
    /\ call = NoCall
    /\ lastTick = NoTick
    /\ thr = [t \in Threads |-> NoThreadCall]

RoundTripNext ==
    \/ StartOneShot(1, [type |-> "U8", val |-> now], FALSE)
    \/ StartPeriodic(1, [type |-> "U8", val |-> now], FALSE)
    \/ GetCurrent(FALSE)
    \/ ResumeKeepingTick

RoundTripSpec == RoundTripInit /\ [][RoundTripNext]_vars

\* ------------------------------------------------------------ properties
\* A step is a call's return when it leaves a call record; call' then describes
\* that call.
Called == call = NoCall /\ call' # NoCall

Reported(hr) == hr \notin {S_OK, NotRun}

Armed == {"ArmedOneShot", "ArmedPeriodic"}

\* C1: an instance operation invoked with a null managed object returns
\* NullReference and runs no later step: no argument is decoded, the driver is
\* not invoked, the result slot is not written.
C1_NullReferenceFailsFast ==
    (call.op \in InstanceOps /\ call.ref = NullRef)
        => /\ call.hr = CLR_E_NULL_REFERENCE
           /\ call.marshalHr = NotRun
           /\ call.driverHr = NotRun
           /\ ~call.wrote
           /\ retSlot = EmptySlot

C1_Witness ==
    /\ call.op = "StartOneShot"
    /\ call.ref = NullRef
    /\ call.hr = CLR_E_NULL_REFERENCE
    /\ \E r \in Refs : ModeOf(r) = "ArmedPeriodic"

\* C2: StartOneShot and StartPeriodic on a non-null reference whose interval
\* argument fails to decode return ArgumentTypeOrRange without invoking the
\* driver; every timer's mode, interval and pending alarm stay as they were.
C2_DecodeFailureHasNoEffect ==
    [][(Called /\ call'.op \in StartOps /\ call'.ref # NullRef
               /\ Reported(call'.marshalHr))
          => /\ call'.hr = ArgumentTypeOrRange
             /\ call'.driverHr = NotRun
             /\ UNCHANGED hwvars
             /\ UNCHANGED sched]_vars

C2_Witness ==
    /\ call.op = "StartPeriodic"
    /\ call.ref # NullRef
    /\ call.marshalHr = ArgumentTypeOrRange
    /\ call.before = "ArmedOneShot"
    /\ ModeOf(call.ref) = "ArmedOneShot"

\* C3: whenever the marshaller or the driver reports a failure kind, the status
\* the call returns is that failure kind.
C3_FailureKindPropagates ==
    /\ Reported(call.marshalHr) => call.hr = call.marshalHr
    /\ Reported(call.driverHr) => call.hr = call.driverHr

C3_Witness ==
    /\ call.op = "Stop"
    /\ call.driverHr = PlatformFault
    /\ call.hr = PlatformFault

\* C4: Create and GetCurrent write the result slot exactly when they return
\* success, and then with the value the driver returned; a failing call leaves
\* the slot as it was.
C4_ResultOnlyOnSuccess ==
    /\ call.op = "Create" =>
          /\ call.wrote <=> call.hr = S_OK
          /\ retSlot = IF call.hr = S_OK THEN [type |-> "I4", val |-> call.driverRet]
                       ELSE EmptySlot
    /\ call.op = "GetCurrent" =>
          /\ call.wrote <=> call.hr = S_OK
          /\ retSlot = IF call.hr = S_OK THEN [type |-> "U8", val |-> call.driverRet]
                       ELSE EmptySlot

C4_Witness ==
    /\ call.op = "Create"
    /\ call.hr = S_OK
    /\ retSlot = [type |-> "I4", val |-> 2]
    /\ table[call.ref] = 2

C6_DisposeIdempotent ==
    [][/\ \A h \in Handles : released'[h] <= 1
       /\ (Called /\ call'.op = "Dispose" /\ call'.ref # NullRef) =>
             /\ call'.hr = S_OK
             /\ call'.before = "None" => UNCHANGED hwvars
             /\ call'.before # "None" =>
                   released' = [released EXCEPT ![table[call'.ref]] = @ + 1]]_vars

C6_Witness ==
    /\ call.op = "Dispose"
    /\ call.ref # NullRef
    /\ call.before = "None"
    /\ call.hr = S_OK
    /\ released[1] = 1
    /\ nextHandle = 2

\* C7: a successful Dispose leaves its reference without an association, so a
\* lookup for it fails with NotFound; a disposed handle stays disposed and no
\* reference is ever associated with it again.
C7_DisposeRemovesAssociation ==
    [][/\ (Called /\ call'.op = "Dispose" /\ call'.ref # NullRef /\ call'.hr = S_OK)
             => table'[call'.ref] = NoHandle
       /\ (Called /\ call'.op = "Stop" /\ call'.ref # NullRef
                  /\ table[call'.ref] = NoHandle)
             => call'.hr = NotFound
       /\ \A h \in Handles : mode[h] = "Disposed" => mode'[h] = "Disposed"
       /\ \A r \in Refs : table'[r] # NoHandle => mode'[table'[r]] # "Disposed"]_vars

C7_Witness ==
    /\ mode[1] = "Disposed"
    /\ \E r \in Refs : table[r] = 2 /\ mode[2] = "ArmedPeriodic"
    /\ call.op = "Stop"
    /\ call.ref # NullRef
    /\ call.hr = NotFound

\* C8: the one pending firing of a timer is that of the last successful Start*
\* on its reference: the interval that call passed, counted from that call.  A
\* schedule replaced by a later Start*, cancelled by Stop or Dispose, or spent
\* by a one-shot firing leaves no firing behind.
C8_OnlyLastSchedulePending ==
    /\ \A r \in Refs :
          IF table[r] = NoHandle THEN sched[r] = NoSched
          ELSE alarm[table[r]] = sched[r].next
    /\ \A h \in Handles : (\A r \in Refs : table[r] # h) => alarm[h] = NoAlarm

\* A one-shot timer was re-armed at tick 1, while armed, for 2 ticks later; the
\* replaced schedule would have fired by tick 2, the counter stands at 2, and
\* the only firing to come is the new one, at tick 3.
C8_Witness ==
    /\ call.op = "StartOneShot"
    /\ call.hr = S_OK
    /\ call.before \in Armed
    /\ now = 2
    /\ ModeOf(call.ref) = "ArmedOneShot"
    /\ interval[table[call.ref]] = 2
    /\ alarm[table[call.ref]] = 3

\* C9: Stop on an Idle timer returns success and changes nothing: no timer's
\* mode, interval or alarm, no association, no expected schedule.
C9_StopIdleIsNoOp ==
    [][(Called /\ call'.op = "Stop" /\ call'.before = "Idle")
          => /\ call'.hr = S_OK
             /\ UNCHANGED hwvars
             /\ UNCHANGED sched]_vars

C9_Witness ==
    /\ call.op = "Stop"
    /\ call.before = "Idle"
    /\ call.hr = S_OK
    /\ ModeOf(call.ref) = "Idle"
    /\ \E r \in Refs : ModeOf(r) = "ArmedOneShot"

\* C10: the mode follows the last successful operation.  A successful Create
\* leaves the timer Idle, StartPeriodic ArmedPeriodic, StartOneShot
\* ArmedOneShot, Stop Idle, and Dispose leaves no timer, so that Stop then
\* returns NotFound.  A failing call changes no mode, a call changes no other
\* timer's mode, the caller's taking a status changes none, and a tick changes
\* only the one-shot timers that fire, to Idle.
C10_ModeFollowsLastSuccess ==
    [][/\ (Called /\ call'.ref # NullRef /\ call'.hr = S_OK) =>
             /\ call'.op = "Create" => ModeIn(table', mode', call'.ref) = "Idle"
             /\ call'.op = "StartPeriodic" => ModeIn(table', mode', call'.ref) = "ArmedPeriodic"
             /\ call'.op = "StartOneShot" => ModeIn(table', mode', call'.ref) = "ArmedOneShot"
             /\ call'.op = "Stop" => ModeIn(table', mode', call'.ref) = "Idle"
             /\ call'.op = "Dispose" => ModeIn(table', mode', call'.ref) = "None"
             /\ \A r \in Refs \ {call'.ref} : ModeIn(table', mode', r) = ModeOf(r)
       /\ (Called /\ (call'.ref = NullRef \/ call'.hr # S_OK)) => mode' = mode
       /\ (Called /\ call'.op = "Stop" /\ call'.ref # NullRef /\ call'.before = "None")
             => call'.hr = NotFound
       /\ (call' = NoCall /\ now' = now) => mode' = mode
       /\ now' # now =>
             \A h \in Handles :
                mode'[h] = IF mode[h] = "ArmedOneShot" /\ alarm[h] = now'
                           THEN "Idle" ELSE mode[h]]_vars

\* A periodic timer armed for every tick by tick 0 (GetCurrent returned 0 after
\* it, and no call returned since) has fired at ticks 1 and 2 and is still armed.
C10_Witness ==
    /\ call.op = "GetCurrent"
    /\ retSlot = [type |-> "U8", val |-> 0]
    /\ now = 2
    /\ \E r \in Refs :
          /\ ModeOf(r) = "ArmedPeriodic"
          /\ interval[table[r]] = 1
          /\ alarm[table[r]] = 3

\* A thread's call carries out its operation on a handle in this step.
Operated(t) == thr[t].pc = "found" /\ thr'[t].pc = "returned"

\* C11: Stop, StartOneShot and StartPeriodic carried out on a handle that is
\* Disposed (another thread's Dispose retired it after this call looked it up)
\* fail with InvalidState, and the handle stays Disposed: the call changes no
\* timer and no association.
C11_DisposedHandleRejects ==
    [][\A t \in Threads :
          (Operated(t) /\ thr[t].op \in {"Stop"} \cup StartOps
                       /\ mode[thr[t].h] = "Disposed")
             => /\ thr'[t].hr = InvalidState
                /\ mode'[thr[t].h] = "Disposed"
                /\ UNCHANGED hwvars]_vars

C11_Witness ==
    \E t \in Threads :
       /\ thr[t].pc = "returned"
       /\ thr[t].op = "StartPeriodic"
       /\ thr[t].hr = InvalidState
       /\ thr[t].h # NoHandle
       /\ mode[thr[t].h] = "Disposed"
       /\ released[thr[t].h] = 1

\* C12: the association table is one-to-one: no handle is associated with two
\* references (a reference has one entry at most, the table being a map).  A
\* Create on a reference that already has an association fails, writes no
\* result, and leaves every association and every timer as it was.
C12_AssociationOneToOne ==
    [][/\ \A r1, r2 \in Refs :
             (table'[r1] # NoHandle /\ table'[r1] = table'[r2]) => r1 = r2
       /\ (Called /\ call'.op = "Create" /\ call'.ref # NullRef
                  /\ table[call'.ref] # NoHandle)
             => /\ FAILED(call'.hr)
                /\ ~call'.wrote
                /\ UNCHANGED hwvars]_vars

C12_Witness ==
    /\ call.op = "Create"
    /\ call.ref # NullRef
    /\ call.before = "ArmedPeriodic"
    /\ call.hr = InvalidState
    /\ ModeOf(call.ref) = "ArmedPeriodic"
    /\ released[1] = 1
    /\ table[call.ref] = 2
    /\ nextHandle = 3

\* C13: with Create and Dispose calls of different threads overlapping, every
\* live handle holds a hardware slot of its own, so the live handles never
\* outnumber the slots; a Create issued when no slot remains returns
\* ResourceExhausted and allocates nothing: no timer, no association and no
\* handle id changes.
C13_SlotsHeldOnce ==
    [][/\ \A h \in Live(HW)' : slotOf'[h] \in Slots
       /\ \A h1, h2 \in Live(HW)' : slotOf'[h1] = slotOf'[h2] => h1 = h2
       /\ Cardinality(Live(HW))' <= NumSlots
       /\ \A t \in Threads :
             (thr[t].pc = "idle" /\ thr'[t].op = "Create" /\ FreeSlots(HW) = {})
                => /\ thr'[t].hr = ResourceExhausted
                   /\ UNCHANGED hwvars]_vars

\* Every slot is held while one thread's Dispose has removed its entry and not
\* yet released its timer; another thread's Create on that reference finds no
\* slot.
C13_Witness ==
    \E t, u \in Threads :
       /\ thr[t].pc = "returned"
       /\ thr[t].op = "Create"
       /\ thr[t].hr = ResourceExhausted
       /\ table[thr[t].ref] = NoHandle
       /\ thr[u].pc = "found"
       /\ thr[u].op = "Dispose"
       /\ thr[u].ref = thr[t].ref
       /\ Cardinality(Live(HW)) = NumSlots

\* C15: a call that returns a failure status, of whatever operation and failure
\* kind, leaves the association table and every timer (its mode, interval,
\* pending firing and hardware slot) as they were before the call, and so as the
\* last successful operation and the firings since left them.
C15_FailureChangesNothing ==
    [][(Called /\ FAILED(call'.hr)) => UNCHANGED hwvars]_vars

C15_Witness ==
    /\ call.op = "StartPeriodic"
    /\ call.hr = PlatformFault
    /\ call.before = "ArmedOneShot"
    /\ ModeOf(call.ref) = "ArmedOneShot"
    /\ now = 1
    /\ alarm[table[call.ref]] = 2
    /\ \E r \in Refs : ModeOf(r) = "ArmedPeriodic"

\* C16: the tick count a successful GetCurrent returns is not below the one the
\* caller took from its previous successful GetCurrent, whatever calls and
\* firings came between the two (the counter does not reach its wraparound
\* within MaxTicks).
C16_GetCurrentMonotone ==
    (call.op = "GetCurrent" /\ call.hr = S_OK /\ lastTick # NoTick)
        => retSlot.val >= lastTick

C16_Witness ==
    /\ call.op = "GetCurrent"
    /\ call.hr = S_OK
    /\ lastTick = 0
    /\ retSlot = [type |-> "U8", val |-> 2]
    /\ released[1] = 1
    /\ \E r \in Refs : ModeOf(r) = "ArmedPeriodic"

\* C17: every value v of the unsigned 64-bit range crosses the boundary
\* unchanged.  A Start* call on the Idle or armed timer whose argument slot holds
\* v decodes v and passes v to the driver: for v = 0 the driver rejects the
\* interval, for every other v it arms the timer for v ticks, v ticks from the
\* counter.  A GetCurrent call whose driver returns v, the counter, writes v to
\* the result slot as an unsigned 64-bit value.
C17_UInt64RoundTrip ==
    [][/\ (Called /\ call'.op \in StartOps) =>
             /\ call'.marshalHr = S_OK
             /\ call'.param0 = now
             /\ call'.driverCalls = 1
             /\ IF call'.param0 = 0
                THEN call'.hr = ArgumentTypeOrRange /\ UNCHANGED hwvars
                ELSE /\ call'.hr = S_OK
                     /\ interval'[table[call'.ref]] = call'.param0
                     /\ alarm'[table[call'.ref]] = now + call'.param0
       /\ (Called /\ call'.op = "GetCurrent") =>
             /\ call'.hr = S_OK
             /\ call'.driverRet = now
             /\ retSlot' = [type |-> "U8", val |-> call'.driverRet]]_vars

\* The largest value of the range went both ways: GetCurrent returned it, and
\* the timer is armed for as many ticks.
C17_Witness ==
    /\ lastTick = UINT64_Range - 1
    /\ call.op = "StartPeriodic"
    /\ call.hr = S_OK
    /\ call.param0 = UINT64_Range - 1
    /\ interval[table[call.ref]] = UINT64_Range - 1
    /\ alarm[table[call.ref]] = 2 * (UINT64_Range - 1)

\* C18: GetCurrent depends on no timer.  It resolves no managed object and
\* decodes nothing, its status is the time source's (success, or the platform
\* fault, never NullReference or NotFound), on success it writes the counter
\* whatever timers exist and whatever their modes, and it leaves the
\* association table, every timer and every schedule unchanged.
C18_GetCurrentHandleIndependent ==
    [][(Called /\ call'.op = "GetCurrent") =>
          /\ call'.ref = NullRef
          /\ call'.marshalHr = NotRun
          /\ call'.hr \in {S_OK, PlatformFault}
          /\ call'.hr = call'.driverHr
          /\ retSlot' = IF call'.hr = S_OK
                        THEN [type |-> "U8", val |-> now % UINT64_Range]
                        ELSE EmptySlot
          /\ UNCHANGED hwvars
          /\ UNCHANGED sched]_vars

\* Every timer ever created is disposed, and GetCurrent returns the counter.
C18_Witness ==
    /\ call.op = "GetCurrent"
    /\ call.hr = S_OK
    /\ retSlot = [type |-> "U8", val |-> 1]
    /\ \A h \in Handles : mode[h] = "Disposed"
    /\ \A r \in Refs : table[r] = NoHandle

\* C19: a call runs its steps in the order resolve reference, decode argument,
\* invoke driver, write result, and leaves at the first step that fails.  The
\* argument is decoded only with a reference, the driver operation is invoked
\* once when the reference check and the decode succeeded and not at all
\* otherwise, never a second time after a failure, the result is written only
\* after the driver succeeded, and the call returns one status, which is success
\* exactly when no step failed.
C19_StepsInOrderOnce ==
    call # NoCall =>
       LET noRef   == call.op \in InstanceOps /\ call.ref = NullRef
           decodes == call.op \in StartOps
       IN  /\ call.marshalHr # NotRun <=> (decodes /\ ~noRef)
           /\ call.driverCalls = IF noRef \/ Reported(call.marshalHr) THEN 0 ELSE 1
           /\ call.driverHr # NotRun <=> call.driverCalls = 1
           /\ call.wrote => call.driverHr = S_OK
           /\ call.hr # NotRun
           /\ call.hr = S_OK <=>
                 ~(noRef \/ Reported(call.marshalHr) \/ Reported(call.driverHr))

\* The driver's Create failed with a platform fault and was not called again.
C19_Witness ==
    /\ call.op = "Create"
    /\ call.ref # NullRef
    /\ call.hr = PlatformFault
    /\ call.driverHr = PlatformFault
    /\ call.driverCalls = 1
    /\ ~call.wrote
    /\ \E r \in Refs : ModeOf(r) \in Armed

====
